---- MODULE Spec2Model ----
(***************************************************************************)
(* AS21Processor of src/app.py: the consolidation of a parent statement    *)
(* with a list of subsidiary statements (process_consolidation and the     *)
(* helpers it calls).                                                      *)
(*                                                                         *)
(* A table (pandas DataFrame with the default 0..n-1 row index) is a       *)
(* record [n |-> number of rows, col |-> column name -> sequence of n      *)
(* cells].  A cell is a number, a text or a blank (NaN).  Numbers are      *)
(* fixed-point integers counting hundredths, so that the products with     *)
(* ownership/100 of the code are exact; floating-point rounding is not     *)
(* modelled.                                                               *)
(***************************************************************************)
EXTENDS Integers, Sequences, FiniteSets, TLC

\* ------------------------------------------------------------------ bounds
\* Rows of a table: the parent has 1..MaxRows, a subsidiary 0..MaxRows.
MaxRows == 2
\* Length of the list subsidiary_dfs.
MaxSubs == 2

\* ------------------------------------------------------- program constants
\* ownership = 100  # default to 100%
DefaultOwnership == 100
\* if ownership > 50:  # AS21 control criterion
ControlThreshold == 50
\* ownership/100
Percent == 100
\* One unit of a fixed-point number: the divisor of ownership/100, so that
\* every share of a whole amount is a whole number of hundredths.
Scale == Percent

\* -------------------------------------------------------------------- cells
Num(v) == [t |-> "num", v |-> v, s |-> ""]
Str(s) == [t |-> "str", v |-> 0, s |-> s]
NaN == [t |-> "nan", v |-> 0, s |-> ""]
\* The whole amount a as a fixed-point number.
Amt(a) == Num(a * Scale)

\* The texts of the model that read as a number, with the number.
NumericText == ("7" :> 7) @@ ("80" :> 80)

\* pd.to_numeric(x, errors='coerce') on one value: a number stays, a text
\* that reads as a number becomes that number, anything else becomes NaN.
ToNumeric(cell) ==
  IF cell.t = "num" THEN cell
  ELSE IF cell.t = "str" /\ cell.s \in DOMAIN NumericText
       THEN Amt(NumericText[cell.s])
       ELSE NaN

\* Series.fillna(0) on one value.
FillNa0(cell) == IF cell.t = "nan" THEN Num(0) ELSE cell

\* ------------------------------------------------------------------- tables
Columns(df) == DOMAIN df.col
NoTable == [n |-> 0, col |-> << >>]

\* ConvertColumn without the .fillna(0).
ConvertColumnNoFill(column) ==
  LET parsed == [r \in DOMAIN column |-> ToNumeric(column[r])]
  IN  IF \E r \in DOMAIN column : parsed[r].t = "num" THEN parsed ELSE column

\* The body of the loop of _safe_numeric_conversion for one column: a column
\* with at least one value that reads as a number is replaced by its numeric
\* reading with 0 for the values that do not; any other column is left alone.
ConvertColumn(column) ==
  LET parsed == [r \in DOMAIN column |-> ToNumeric(column[r])]
  IN  IF \E r \in DOMAIN column : parsed[r].t = "num"
      THEN [r \in DOMAIN column |-> FillNa0(parsed[r])]
      ELSE column

\* _safe_numeric_conversion: the contents of the table it returns.
SafeNumericConversion(df) ==
  [n |-> df.n, col |-> [c \in Columns(df) |-> ConvertColumn(df.col[c])]]

\* DfCopy without the copy: the name is bound to the object itself.
DfCopyAlias(obj) == obj

\* df.copy(): the object the name on the left is bound to.  A copy is a new
\* object owned by the engine, whatever object it was taken from.
DfCopy(obj) == "copy"

\* _is_numeric_column: pd.api.types.is_numeric_dtype(df[column]).  A column
\* read from a sheet has a numeric dtype when it has a row and holds only
\* numbers and blanks; a text anywhere, or no row at all, gives dtype object.
IsNumericColumn(df, column) ==
  /\ df.n > 0
  /\ \A r \in 1..df.n : df.col[column][r].t # "str"

\* column.lower() on the column names of the model.
ToLower(column) ==
  CASE column = "Account" -> "account"
    [] column = "Value" -> "value"
    [] column = "Local_Tax" -> "local_tax"
    [] column = "Intercompany_Sales" -> "intercompany_sales"
    [] OTHER -> column

\* 'intercompany' in column.lower()
ContainsIntercompany(column) ==
  ToLower(column) \in {"intercompany_receivables", "intercompany_payables",
                       "intercompany_sales"}

\* f"minority_interest_{column}"
MiColumn(column) == "minority_interest_" \o column

\* ---------------------------------------------------------------- ownership
\* Lines 108-111: 100 without an ownership_percentage column or without a
\* row, else the numeric reading of the first row (NaN when it has none).
GetOwnership(sub) ==
  IF "ownership_percentage" \in Columns(sub) /\ sub.n > 0
  THEN ToNumeric(sub.col["ownership_percentage"][1])
  ELSE Amt(DefaultOwnership)

\* Controls with >= for >.
ControlsAtOrAbove(ownership) ==
  ownership.t = "num" /\ ownership.v >= ControlThreshold * Scale

\* ownership > 50; a comparison with NaN is False.
Controls(ownership) ==
  ownership.t = "num" /\ ownership.v > ControlThreshold * Scale

\* ------------------------------------------------------------- eliminations
RECURSIVE SumUpTo(_, _)
\* The sum of the first k values of pd.to_numeric(column, errors='coerce');
\* Series.sum() skips NaN.
SumUpTo(column, k) ==
  IF k = 0 THEN 0
  ELSE LET x == ToNumeric(column[k])
       IN  SumUpTo(column, k - 1) + (IF x.t = "num" THEN x.v ELSE 0)

\* pd.to_numeric(df[column], errors='coerce').sum()
CoercedSum(df, column) == SumUpTo(df.col[column], df.n)

Min(a, b) == IF b < a THEN b ELSE a
Max(a, b) == IF b > a THEN b ELSE a

\* IntercompanyElimination with max for min.
IntercompanyEliminationMax(parent, subsidiary) ==
  IF /\ "intercompany_receivables" \in Columns(parent)
     /\ "intercompany_payables" \in Columns(subsidiary)
  THEN Max(CoercedSum(parent, "intercompany_receivables"),
           CoercedSum(subsidiary, "intercompany_payables"))
  ELSE 0

\* eliminations['intercompany_transactions']
IntercompanyElimination(parent, subsidiary) ==
  IF /\ "intercompany_receivables" \in Columns(parent)
     /\ "intercompany_payables" \in Columns(subsidiary)
  THEN Min(CoercedSum(parent, "intercompany_receivables"),
           CoercedSum(subsidiary, "intercompany_payables"))
  ELSE 0

\* _calculate_eliminations: the dict it returns.
CalculateEliminations(parent, subsidiary) ==
  [investment |->
     IF "investment_in_subsidiary" \in Columns(parent)
     THEN CoercedSum(parent, "investment_in_subsidiary")
     ELSE 0,
   intercompany_transactions |-> IntercompanyElimination(parent, subsidiary),
   unrealized_profit |-> 0]

\* the dict before anything is computed
NoEliminations ==
  [investment |-> 0, intercompany_transactions |-> 0, unrealized_profit |-> 0]

\* ------------------------------------------------- _add_subsidiary_amounts
\* The columns of the subsidiary the loop does not pass over: present in the
\* consolidated table, of numeric dtype, and not named as an elimination
\* account.
AddedColumns(cons, sub) ==
  {c \in Columns(sub) :
     /\ c \in Columns(cons)
     /\ IsNumericColumn(sub, c)
     /\ ~ContainsIntercompany(c)}

\* pd.to_numeric(subsidiary[column], errors='coerce').fillna(0), row r
SubValue(sub, column, r) == FillNa0(ToNumeric(sub.col[column][r]))

\* a fixed-point number times a fixed-point factor
Times(cell, factor) == Num((cell.v * factor) \div Scale)

\* ownership/100
OwnedShare(ownership) == ownership.v \div Percent

\* minority_interest = (1 - ownership/100)
MinorityShare(ownership) == Scale - OwnedShare(ownership)

\* The right-hand sides, as Series over the subsidiary's rows, seen from the
\* consolidated table's row r: a row the subsidiary does not have is NaN once
\* the Series is aligned on the consolidated table's index.
ScaledAt(sub, column, r, ownership) ==
  IF r <= sub.n THEN Times(SubValue(sub, column, r), OwnedShare(ownership))
  ELSE NaN

MinorityAt(sub, column, r, ownership) ==
  IF r <= sub.n THEN Times(SubValue(sub, column, r), MinorityShare(ownership))
  ELSE NaN

\* One element of consolidated[column] + Series: NaN unless both are numbers.
AddCells(a, b) ==
  IF a.t = "num" /\ b.t = "num" THEN Num(a.v + b.v) ELSE NaN

\* consolidated[column] += ... raises TypeError where a text of the
\* consolidated column meets a number of the subsidiary.
AddRaises(cons, sub) ==
  \E c \in AddedColumns(cons, sub) :
    \E r \in 1..Min(cons.n, sub.n) : cons.col[c][r].t = "str"

\* The table _add_subsidiary_amounts returns when nothing raises.  No column
\* of the model is named minority_interest_..., so the order in which the
\* loop visits the columns does not show in the result.
AddSubsidiaryAmounts(cons, sub, elims, ownership) ==
  LET added == AddedColumns(cons, sub)
      mi == {MiColumn(c) : c \in added}
      source(m) == CHOOSE c \in added : MiColumn(c) = m
  IN  [n |-> cons.n,
       col |-> [c \in Columns(cons) \cup mi |->
                  IF c \in mi
                  THEN [r \in 1..cons.n |->
                          MinorityAt(sub, source(c), r, ownership)]
                  ELSE IF c \in added
                  THEN [r \in 1..cons.n |->
                          AddCells(cons.col[c][r],
                                   ScaledAt(sub, c, r, ownership))]
                  ELSE cons.col[c]]]

\* The whole of process_consolidation as a function of its arguments: the
\* loop from subsidiary k on, over the consolidated table so far.
RECURSIVE ConsolidateFrom(_, _, _)
ConsolidateFrom(cons, subs, k) ==
  IF k > Len(subs) THEN [raised |-> FALSE, df |-> cons]
  ELSE LET sub == SafeNumericConversion(subs[k])
           own == GetOwnership(sub)
       IN  IF ~Controls(own) THEN ConsolidateFrom(cons, subs, k + 1)
           ELSE IF AddRaises(cons, sub) THEN [raised |-> TRUE, df |-> NoTable]
           ELSE ConsolidateFrom(
                  AddSubsidiaryAmounts(cons, sub,
                                       CalculateEliminations(cons, sub), own),
                  subs, k + 1)

ProcessConsolidation(parent, subs) ==
  ConsolidateFrom(SafeNumericConversion(parent), subs, 1)

\* ------------------------------------------------------------------ inputs
\* The sheets the runs are given.  A sheet is a number of rows and, for each
\* of its columns, one way of filling the column row by row.
AccountNames == <<"Revenue", "Intercompany Loan", "Cost", "Tax">>

Fill(column, how, r) ==
  CASE how = "std" -> Str(AccountNames[((r - 1) % Len(AccountNames)) + 1])
    [] how = "swap" -> Str(AccountNames[IF r = 1 THEN 2 ELSE IF r = 2 THEN 1
                             ELSE ((r - 1) % Len(AccountNames)) + 1])
    [] how = "a" -> Amt(1000 * r)
    [] how = "b" -> Amt(500 * r)
    [] how = "mixed" -> IF r = 1 THEN Str("7")
                        ELSE IF r = 2 THEN Str("n/a") ELSE NaN
    [] how = "text" -> Str("n/a")
    [] how = "c50" -> Amt(50)
    [] how = "c60" -> Amt(60)
    [] how = "f80" -> IF r = 1 THEN Amt(80) ELSE Amt(40)
    [] how = "ftext" -> IF r = 1 THEN Str("n/a") ELSE Str("80")
    [] how = "inv" -> IF r % 2 = 1 THEN Amt(300) ELSE NaN
    [] how = "recv" -> Amt(40)
    [] how = "lo" -> Amt(10)
    [] how = "hi" -> Amt(90)
    [] how = "tax" -> Amt(20)

MkTable(n, fills) ==
  [n |-> n,
   col |-> [c \in DOMAIN fills |-> [r \in 1..n |-> Fill(c, fills[c], r)]]]

ParentFills ==
  { [Account |-> "std", Value |-> "a"],
    [Account |-> "std", Value |-> "mixed"],
    [Account |-> "std", Value |-> "text"],
    [Account |-> "std", Value |-> "a", investment_in_subsidiary |-> "inv"],
    [Account |-> "std", Value |-> "a", Intercompany_Sales |-> "recv"],
    [Account |-> "std", Value |-> "a", investment_in_subsidiary |-> "inv",
     intercompany_receivables |-> "recv"] }

SubFills ==
  { [Account |-> "std", Value |-> "b"],
    [Account |-> "std", Value |-> "mixed"],
    [Account |-> "std", Value |-> "b", ownership_percentage |-> "f80"],
    [Account |-> "std", Value |-> "b", Intercompany_Sales |-> "lo"],
    [Account |-> "swap", Value |-> "b", ownership_percentage |-> "c50"],
    [Account |-> "swap", Value |-> "b", ownership_percentage |-> "c60"],
    [Account |-> "swap", Value |-> "b", ownership_percentage |-> "ftext"],
    [Value |-> "b", intercompany_receivables |-> "recv",
     intercompany_payables |-> "lo"],
    [Value |-> "b", intercompany_receivables |-> "recv",
     intercompany_payables |-> "hi"],
    [Local_Tax |-> "tax"] }

ParentTables == {MkTable(n, f) : n \in 1..MaxRows, f \in ParentFills}
SubTables ==
  {MkTable(n, f) : n \in 1..MaxRows, f \in SubFills}
    \cup {MkTable(0, [Account |-> "swap", Value |-> "b",
                      ownership_percentage |-> "c50"])}

\* ----------------------------------------------------------- state machine
VARIABLES
  pc,                \* where process_consolidation is
  parent_df,         \* the caller's parent table
  subsidiary_dfs,    \* the caller's list, as far as the loop has read it
  consolidated,      \* the table the local name consolidated is bound to
  consolidated_obj,  \* which object that is: "copy" or "parent_df"
  sub_df,            \* the loop's converted subsidiary table
  ownership,         \* the loop's ownership
  eliminations       \* the loop's eliminations

vars == <<pc, parent_df, subsidiary_dfs, consolidated, consolidated_obj,
          sub_df, ownership, eliminations>>

Init ==
  /\ pc = "call"
  /\ parent_df \in ParentTables
  /\ subsidiary_dfs = << >>
  /\ consolidated = NoTable
  /\ consolidated_obj = "copy"
  /\ sub_df = NoTable
  /\ ownership = Amt(DefaultOwnership)
  /\ eliminations = NoEliminations

\* A write of the table new through the name consolidated.
WriteConsolidated(obj, new) ==
  /\ consolidated' = new
  /\ parent_df' = IF obj = "parent_df" THEN new ELSE parent_df

\* consolidated = self._safe_numeric_conversion(parent_df.copy())
Start ==
  /\ pc = "call"
  /\ LET obj == DfCopy(DfCopy("parent_df"))
     IN  /\ consolidated_obj' = obj
         /\ WriteConsolidated(obj, SafeNumericConversion(parent_df))
  /\ pc' = "loop"
  /\ UNCHANGED <<subsidiary_dfs, sub_df, ownership, eliminations>>

\* for sub_df in subsidiary_dfs: the loop reads the next table of the list.
\* The loop body reads no later table, so the caller's list is drawn table by
\* table as the loop reaches it; Return is the list having no more.
NextSub ==
  /\ pc = "loop"
  /\ Len(subsidiary_dfs) < MaxSubs
  /\ \E t \in SubTables : subsidiary_dfs' = Append(subsidiary_dfs, t)
  /\ pc' = "convert"
  /\ UNCHANGED <<parent_df, consolidated, consolidated_obj, sub_df,
                 ownership, eliminations>>

\* sub_df = self._safe_numeric_conversion(sub_df) and the ownership lines
Convert ==
  /\ pc = "convert"
  /\ LET k == Len(subsidiary_dfs)
         obj == DfCopy("arg")
         conv == SafeNumericConversion(subsidiary_dfs[k])
     IN  /\ sub_df' = conv
         /\ subsidiary_dfs' = IF obj = "arg"
                              THEN [subsidiary_dfs EXCEPT ![k] = conv]
                              ELSE subsidiary_dfs
         /\ ownership' = GetOwnership(conv)
  /\ pc' = "check"
  /\ UNCHANGED <<parent_df, consolidated, consolidated_obj, eliminations>>

\* if ownership > 50: not taken
Skip ==
  /\ pc = "check"
  /\ ~Controls(ownership)
  /\ pc' = "loop"
  /\ UNCHANGED <<parent_df, subsidiary_dfs, consolidated, consolidated_obj,
                 sub_df, ownership, eliminations>>

\* if ownership > 50: eliminations = self._calculate_eliminations(...)
Eliminate ==
  /\ pc = "check"
  /\ Controls(ownership)
  /\ eliminations' = CalculateEliminations(consolidated, sub_df)
  /\ pc' = "add"
  /\ UNCHANGED <<parent_df, subsidiary_dfs, consolidated, consolidated_obj,
                 sub_df, ownership>>

\* consolidated = self._add_subsidiary_amounts(...)
Add ==
  /\ pc = "add"
  /\ ~AddRaises(consolidated, sub_df)
  /\ WriteConsolidated(consolidated_obj,
                       AddSubsidiaryAmounts(consolidated, sub_df,
                                            eliminations, ownership))
  /\ pc' = "loop"
  /\ UNCHANGED <<subsidiary_dfs, consolidated_obj, sub_df, ownership,
                 eliminations>>

\* the TypeError of consolidated[column] += ... leaves process_consolidation
AddFails ==
  /\ pc = "add"
  /\ AddRaises(consolidated, sub_df)
  /\ pc' = "error"
  /\ UNCHANGED <<parent_df, subsidiary_dfs, consolidated, consolidated_obj,
                 sub_df, ownership, eliminations>>

\* return consolidated
Return ==
  /\ pc = "loop"
  /\ pc' = "done"
  /\ UNCHANGED <<parent_df, subsidiary_dfs, consolidated, consolidated_obj,
                 sub_df, ownership, eliminations>>

Next ==
  \/ Start
  \/ NextSub
  \/ Convert
  \/ Skip
  \/ Eliminate
  \/ Add
  \/ AddFails
  \/ Return

Spec == Init /\ [][Next]_vars

\* ================================================================== claims
\* What the run has produced when it is over.
Outcome ==
  [raised |-> pc = "error", df |-> IF pc = "error" THEN NoTable ELSE consolidated]

\* The list without its k-th table.
Without(subs, k) == SubSeq(subs, 1, k - 1) \o SubSeq(subs, k + 1, Len(subs))

\* The ownership a subsidiary sheet states, and whether it states one.
StatedOwnership(t) == ToNumeric(t.col["ownership_percentage"][1])
AtOrBelowThreshold(t) ==
  /\ "ownership_percentage" \in Columns(t)
  /\ t.n > 0
  /\ StatedOwnership(t).t = "num"
  /\ StatedOwnership(t).v <= ControlThreshold * Scale

\* C1: a subsidiary whose ownership is at or below 50% contributes nothing:
\* a finished run, failed or not, has the outcome of the same run without
\* that subsidiary; with only such subsidiaries the result is the converted
\* parent table, with no minority-interest column.
C1_BelowThresholdContributesNothing ==
  pc \in {"done", "error"} =>
    /\ \A k \in DOMAIN subsidiary_dfs :
         AtOrBelowThreshold(subsidiary_dfs[k]) =>
           Outcome = ProcessConsolidation(parent_df, Without(subsidiary_dfs, k))
    /\ (\A k \in DOMAIN subsidiary_dfs : AtOrBelowThreshold(subsidiary_dfs[k]))
         => /\ Outcome = ProcessConsolidation(parent_df, << >>)
            /\ Columns(consolidated) = Columns(parent_df)

\* A finished run of two subsidiaries, one at or below the threshold and one
\* that was added to the consolidated table.
C1_Witness ==
  /\ pc = "done"
  /\ \E k \in DOMAIN subsidiary_dfs : AtOrBelowThreshold(subsidiary_dfs[k])
  /\ consolidated # SafeNumericConversion(parent_df)

\* C7: process_consolidation never mutates its inputs: no step changes the
\* caller's parent table or a table of the caller's list.
C7_InputsNeverMutated ==
  [][/\ parent_df' = parent_df
     /\ \A k \in DOMAIN subsidiary_dfs :
          subsidiary_dfs'[k] = subsidiary_dfs[k]]_vars

\* A finished run that converted a parent and a subsidiary holding texts and
\* wrote subsidiary amounts into the consolidated table.
C7_Witness ==
  /\ pc = "done"
  /\ Len(subsidiary_dfs) >= 2
  /\ SafeNumericConversion(parent_df) # parent_df
  /\ \E k \in DOMAIN subsidiary_dfs :
       SafeNumericConversion(subsidiary_dfs[k]) # subsidiary_dfs[k]
  /\ consolidated # SafeNumericConversion(parent_df)

LesserOf(a, b) == IF a <= b THEN a ELSE b

\* C8: _calculate_eliminations returns as investment elimination the sum of
\* the parent's investment_in_subsidiary column when present and 0 otherwise,
\* as intercompany elimination the lesser of the sums of the parent's
\* intercompany_receivables and the subsidiary's intercompany_payables when
\* both are present and 0 otherwise, and changes neither table.
C8_Eliminations ==
  [][(pc = "check" /\ pc' = "add") =>
       /\ eliminations'.investment =
            (IF "investment_in_subsidiary" \in Columns(consolidated)
             THEN CoercedSum(consolidated, "investment_in_subsidiary") ELSE 0)
       /\ eliminations'.intercompany_transactions =
            (IF /\ "intercompany_receivables" \in Columns(consolidated)
                /\ "intercompany_payables" \in Columns(sub_df)
             THEN LesserOf(CoercedSum(consolidated, "intercompany_receivables"),
                           CoercedSum(sub_df, "intercompany_payables"))
             ELSE 0)
       /\ consolidated' = consolidated
       /\ sub_df' = sub_df
       /\ parent_df' = parent_df
       /\ subsidiary_dfs' = subsidiary_dfs]_vars

\* Eliminations computed from a parent with both columns and a subsidiary
\* whose payables are the lesser sum.
C8_Witness ==
  /\ pc = "add"
  /\ "investment_in_subsidiary" \in Columns(consolidated)
  /\ "intercompany_receivables" \in Columns(consolidated)
  /\ "intercompany_payables" \in Columns(sub_df)
  /\ eliminations.investment > 0
  /\ eliminations.intercompany_transactions > 0
  /\ eliminations.intercompany_transactions
       < CoercedSum(consolidated, "intercompany_receivables")

ReadsAsNumber(cell) == ToNumeric(cell).t = "num"

\* out is the coerce-or-zero conversion of the table in.
CoerceOrZero(in, out) ==
  /\ out.n = in.n
  /\ Columns(out) = Columns(in)
  /\ \A c \in Columns(in) :
       /\ DOMAIN out.col[c] = 1..in.n
       /\ IF \E r \in 1..in.n : ReadsAsNumber(in.col[c][r])
          THEN \A r \in 1..in.n :
                 out.col[c][r] = IF ReadsAsNumber(in.col[c][r])
                                 THEN ToNumeric(in.col[c][r]) ELSE Num(0)
          ELSE out.col[c] = in.col[c]

\* C9: after the numeric conversion of a table (the parent's at the start,
\* each subsidiary's in the loop), in every column with a value that reads as
\* a number each such value keeps its number and every other value is 0,
\* every other column is unchanged, and the shape is the same.
C9_CoerceOrZero ==
  /\ (pc = "loop" /\ subsidiary_dfs = << >>)
       => CoerceOrZero(parent_df, consolidated)
  /\ pc = "check"
       => CoerceOrZero(subsidiary_dfs[Len(subsidiary_dfs)], sub_df)

\* A converted subsidiary with a column mixing a text that reads as a number
\* with one that does not, beside a column of texts only.
C9_Witness ==
  /\ pc = "check"
  /\ LET in == subsidiary_dfs[Len(subsidiary_dfs)]
     IN  /\ \E c \in Columns(in) :
               /\ \E r \in 1..in.n :
                    in.col[c][r].t = "str" /\ ReadsAsNumber(in.col[c][r])
               /\ \E r \in 1..in.n : ~ReadsAsNumber(in.col[c][r])
               /\ sub_df.col[c] # in.col[c]
         /\ \E c \in Columns(in) :
               \A r \in 1..in.n : ~ReadsAsNumber(in.col[c][r])

\* ------------------------------------------- claims the code does not meet
\* The converted tables the run works on, and each subsidiary's ownership.
ParentConverted == SafeNumericConversion(parent_df)
SubConverted(k) == SafeNumericConversion(subsidiary_dfs[k])
Qualifies(k) == Controls(GetOwnership(SubConverted(k)))

\* The columns of subsidiary k that take part in the line-by-line addition.
Contributing(k) ==
  IF Qualifies(k) THEN AddedColumns(ParentConverted, SubConverted(k)) ELSE {}

\* C2: after a run, the minority interest reported for each qualifying
\* subsidiary owned below 100%, in each row it shares with the parent, is its
\* raw value times (1 - ownership), whatever the other subsidiaries are.
C2_MinorityInterestPerSubsidiary ==
  pc = "done" =>
    \A k \in DOMAIN subsidiary_dfs : \A c \in Contributing(k) :
      MinorityShare(GetOwnership(SubConverted(k))) > 0 =>
      /\ MiColumn(c) \in Columns(consolidated)
      /\ \A r \in 1..Min(parent_df.n, subsidiary_dfs[k].n) :
           consolidated.col[MiColumn(c)][r] =
             Times(SubValue(SubConverted(k), c, r),
                   MinorityShare(GetOwnership(SubConverted(k))))

RECURSIVE ScaledTotal(_, _, _)
\* The sum over subsidiaries 1..k of the column's ownership-scaled values.
ScaledTotal(c, subs, k) ==
  IF k = 0 THEN 0
  ELSE ScaledTotal(c, subs, k - 1) +
       (IF c \in Contributing(k)
        THEN (CoercedSum(SubConverted(k), c)
                * OwnedShare(GetOwnership(SubConverted(k)))) \div Scale
        ELSE 0)

\* process_consolidation returns the consolidated table alone: it removes no
\* row and keeps no eliminated set.
EliminatedTotal(c) == 0

\* C3: conservation: for every numeric column the subsidiaries are added to,
\* the column's sum over the consolidated output plus its sum over the
\* eliminated rows is the parent's sum plus the ownership-scaled sums of the
\* qualifying subsidiaries, whatever the numbers of rows.
C3_Conservation ==
  pc = "done" =>
    \A c \in Columns(ParentConverted) :
      (IsNumericColumn(ParentConverted, c) /\ ~ContainsIntercompany(c)) =>
        CoercedSum(consolidated, c) + EliminatedTotal(c)
          = CoercedSum(ParentConverted, c)
              + ScaledTotal(c, subsidiary_dfs, Len(subsidiary_dfs))

\* C4: with one qualifying subsidiary, a line item (an Account) present in
\* the parent and in the subsidiary has in the common numeric column Value
\* the consolidated value parent + ownership x subsidiary, and its key once.
C4_LineItemAddedByKey ==
  (pc = "done" /\ Len(subsidiary_dfs) = 1 /\ "Value" \in Contributing(1)
     /\ "Account" \in Columns(parent_df)
     /\ "Account" \in Columns(subsidiary_dfs[1])
     /\ IsNumericColumn(ParentConverted, "Value")) =>
    \A rp \in 1..parent_df.n : \A rs \in 1..subsidiary_dfs[1].n :
      parent_df.col["Account"][rp] = subsidiary_dfs[1].col["Account"][rs] =>
        /\ consolidated.col["Value"][rp] =
             AddCells(ParentConverted.col["Value"][rp],
                      Times(SubValue(SubConverted(1), "Value", rs),
                            OwnedShare(GetOwnership(SubConverted(1)))))
        /\ Cardinality({r \in 1..consolidated.n :
                          consolidated.col["Account"][r]
                            = parent_df.col["Account"][rp]}) = 1

\* The texts of the model that contain an intercompany pattern, whatever the
\* case.
IsIntercompanyKey(cell) == cell.t = "str" /\ cell.s \in {"Intercompany Loan"}

\* C5: no row whose key contains an intercompany pattern is in the
\* consolidated output.
C5_IntercompanyRowsEliminated ==
  pc = "done" =>
    \A c \in Columns(consolidated) : \A r \in 1..consolidated.n :
      ~IsIntercompanyKey(consolidated.col[c][r])

\* C6: a subsidiary that shares no column with the parent aborts the run: no
\* run that returns a table has read such a subsidiary.
C6_DisjointSchemaAborts ==
  pc = "done" =>
    \A k \in DOMAIN subsidiary_dfs :
      Columns(subsidiary_dfs[k]) \cap Columns(parent_df) # {}

\* C10: a subsidiary without an ownership_percentage column passes the
\* control test, and once it is added every minority_interest_<column> it
\* wrote is 0 in every row of the consolidated table.
C10_FullyOwnedMinorityZero ==
  (/\ pc = "loop"
   /\ subsidiary_dfs # << >>
   /\ "ownership_percentage" \notin Columns(sub_df)) =>
    /\ Controls(ownership)
    /\ \A c \in AddedColumns(consolidated, sub_df) :
         \A r \in 1..consolidated.n :
           consolidated.col[MiColumn(c)][r] = Num(0)

====
